---- MODULE Spec2Model ----
(***************************************************************************)
(* Model of ObjectDetectionRNPrimitive (object_detection.py): the          *)
(* bookkeeping of set_training_data, fit and produce.                      *)
(*                                                                         *)
(* The model follows the statements of the methods as they are written.    *)
(* The file itself does not compile (line 481: 'return' outside function); *)
(* the return is read as the last statement of _fill_empty_predictions.    *)
(*                                                                         *)
(* Representation:                                                         *)
(*   - a path string "/c1/c2/..." is the sequence of its components;       *)
(*   - a comma-separated string is the sequence of its fields, each field  *)
(*     a string;                                                           *)
(*   - a confidence is an integer number of ten-thousandths (0.5 = 5000);  *)
(*   - a detector box coordinate is an integer number of tenths of a       *)
(*     pixel, so that astype(int) has something to truncate;               *)
(*   - Python's None is the string NoneValue where the attribute holds a   *)
(*     string, and NoTable where it holds a table or a list (no call       *)
(*     stores an empty one).                                               *)
(***************************************************************************)
EXTENDS Integers, Sequences, FiniteSets, TLC

\* ---------------------------------------------------------------- bounds
MaxRows == 2        \* rows of a prediction input table
MaxDets == 2        \* detections the detector returns for one image
MaxTrainRows == 2   \* rows of a training input table

\* ------------------------------------------------------- program constants
ScoreThreshold == 5000    \* 0.5 in ten-thousandths (line 600)
BoxLen == 4               \* len(b): a box has four coordinates (line 606)

NoneValue == "<None>"
NoTable == <<>>

\* ------------------------------------------------------------ input sets
\* The single FileName column's location_base_uris[0], 'file:///' replaced by '/'.
LocationBase == <<"media">>

\* Rows of a prediction table: two files of one basename in different
\* directories, and a file of another basename. A table may repeat a row and
\* list its rows in any order.
PredictionRows ==
    { [d3mIndex |-> 1, image |-> <<"a.jpg">>],
      [d3mIndex |-> 2, image |-> <<"b.jpg">>],
      [d3mIndex |-> 3, image |-> <<"sub", "a.jpg">>] }

\* Boxes the detector returns, already divided by the image scale (tenths).
BoxA == <<15, 27, 108, 99>>
BoxB == <<-5, 5, 31, 42>>

Detections ==
    { [box |-> BoxA, score |-> 9000],
      [box |-> BoxB, score |-> 5000],
      [box |-> BoxA, score |-> 4999] }

\* All sequences over S of length at most n.
RECURSIVE SeqsUpTo(_, _)
SeqsUpTo(S, n) ==
    IF n = 0 THEN {<<>>}
    ELSE LET shorter == SeqsUpTo(S, n - 1)
         IN  shorter \cup {Append(s, x) : s \in {t \in shorter : Len(t) = n - 1}, x \in S}

PredictionInputs == SeqsUpTo(PredictionRows, MaxRows) \ {<<>>}

\* What predict_on_batch hands back: the triple (boxes, scores, labels), or a
\* tuple of another arity (one value short, one value long). The detections
\* come in any order; the detector reports no detection twice.
DetectorOutputs ==
    {[arity |-> 3, dets |-> d] :
        d \in {t \in SeqsUpTo(Detections, MaxDets) :
                  \A i, j \in 1..Len(t) : i # j => t[i] # t[j]}}
    \cup {[arity |-> 2, dets |-> <<>>], [arity |-> 4, dets |-> <<>>]}

\* ------------------------------------------------------- path operations
\* os.path.join(base_dir, filename)
PathJoin(base, filename) == base \o filename

\* os.path.basename
Basename(path) == IF Len(path) = 0 THEN <<>> ELSE <<path[Len(path)]>>

\* str * n: the string repeated n times; an absolute path repeated is the
\* path of the concatenated components.
RECURSIVE StrRepeat(_, _)
StrRepeat(path, n) == IF n <= 0 THEN <<>> ELSE path \o StrRepeat(path, n - 1)

\* [os.path.join(base_dir, filename) for filename in inputs.iloc[:, col]]
ImagePaths(inputs) == [k \in 1..Len(inputs) |-> PathJoin(LocationBase, inputs[k].image)]

\* list.index(x): position of the first occurrence
ListIndex(s, x) == CHOOSE i \in 1..Len(s) : s[i] = x /\ \A j \in 1..(i - 1) : s[j] # x

\* [x for i, x in enumerate(l) if l.index(x) == i]
RECURSIVE KeepFirstFrom(_, _)
KeepFirstFrom(s, i) ==
    IF i > Len(s) THEN <<>>
    ELSE (IF ListIndex(s, s[i]) = i THEN <<s[i]>> ELSE <<>>) \o KeepFirstFrom(s, i + 1)

ImageListMutant(paths) == paths
ImageList(paths) == KeepFirstFrom(paths, 1)

\* ------------------------------------------------- bounding-box encoding
\* ndarray.astype(int) on one float: truncation toward zero (tenths -> units)
AsInt(v) == IF v >= 0 THEN v \div 10 ELSE -((-v) \div 10)

BoxAsInt(box) == [i \in 1..Len(box) |-> AsInt(box[i])]

\* lambda x : [x[0], x[1], x[0], x[3], x[2], x[3], x[2], x[1]]
To8CoordinateMutant(x) == <<x[1], x[2], x[3], x[2], x[3], x[4], x[1], x[4]>>
To8Coordinate(x) == <<x[1], x[2], x[1], x[4], x[3], x[4], x[3], x[2]>>

\* ",".join(map(str, x)) for a list of ints
JoinStr(x) == [i \in 1..Len(x) |-> ToString(x[i])]

\* box_list entry -> bounding_box string
BoxString(b) == JoinStr(To8Coordinate(b))

\* ------------------------------------------------------- training tables
GeneralString == <<"1", "2", "3", "4", "5", "6", "7", "8">>
ShortString == <<"1", "2", "3", "4", "5", "6", "7">>
LongString == <<"1", "2", "3", "4", "5", "6", "7", "8", "9">>
NonNumericString == <<"x", "2", "x", "9", "10", "9", "10", "2">>

NumericTokens == {ToString(n) : n \in -1..10}

TrainingRows ==
    { [image |-> <<"a.jpg">>, bounding_box |-> BoxString(BoxAsInt(BoxA))],
      [image |-> <<"a.jpg">>, bounding_box |-> GeneralString],
      [image |-> <<"b.jpg">>, bounding_box |-> ShortString],
      [image |-> <<"sub", "a.jpg">>, bounding_box |-> LongString],
      [image |-> <<"b.jpg">>, bounding_box |-> NonNumericString] }

TrainingInputs == SeqsUpTo(TrainingRows, MaxTrainRows) \ {<<>>}

\* The training tables of the whole-lifecycle specification: one that is
\* stored and one that raises.
LifecycleTrainingInputs ==
    { <<[image |-> <<"a.jpg">>, bounding_box |-> BoxString(BoxAsInt(BoxA))]>>,
      <<[image |-> <<"b.jpg">>, bounding_box |-> ShortString]>> }

Max(S) == CHOOSE m \in S : \A n \in S : n <= m

\* Series.str.split(',', expand = True): one column per field, short rows
\* padded with None up to the longest row.
SplitExpand(inputs) ==
    LET ncols == Max({Len(inputs[k].bounding_box) : k \in 1..Len(inputs)})
    IN  [k \in 1..Len(inputs) |->
            [c \in 1..ncols |->
                IF c <= Len(inputs[k].bounding_box)
                THEN inputs[k].bounding_box[c] ELSE NoneValue]]

\* bounding_coords.columns[[2, 5, 6, 7]] (0-based positions)
DroppedColumnsMutant == {2, 3, 6, 7}
DroppedColumns == {2, 5, 6, 7}

\* DataFrame.drop(columns, axis = 1) on one row: the fields that stay, in order
RECURSIVE DropFrom(_, _, _)
DropFrom(row, dropped, c) ==
    IF c > Len(row) THEN <<>>
    ELSE (IF (c - 1) \in dropped THEN <<>> ELSE <<row[c]>>) \o DropFrom(row, dropped, c + 1)

\* bounding_coords.columns = ['x1', 'y1', 'y2', 'x2']
ColumnNamesMutant == <<"x1", "y1", "x2", "y2">>
ColumnNames == <<"x1", "y1", "y2", "x2">>

ColumnOf(name) == CHOOSE c \in 1..Len(ColumnNames) : ColumnNames[c] = name

\* Lines 186-189: "IndexError" when a dropped position does not exist,
\* "ValueError" when the four names do not fit the columns left; otherwise
\* the rows as (x1, y1, x2, y2) records.
BoundingCoordsError(inputs) ==
    LET ncols == Len(SplitExpand(inputs)[1])
    IN  IF \E d \in DroppedColumns : d >= ncols THEN "IndexError"
        ELSE IF ncols - Cardinality(DroppedColumns) # Len(ColumnNames) THEN "ValueError"
        ELSE "ok"

BoundingCoords(inputs) ==
    LET split == SplitExpand(inputs)
    IN  [k \in 1..Len(inputs) |->
            LET kept == DropFrom(split[k], DroppedColumns, 1)
            IN  [x1 |-> kept[ColumnOf("x1")], y1 |-> kept[ColumnOf("y1")],
                 x2 |-> kept[ColumnOf("x2")], y2 |-> kept[ColumnOf("y2")]]]

\* Lines 192-196
Annotations(paths, coords) ==
    [k \in 1..Len(coords) |->
        [img_file |-> paths[k], x1 |-> coords[k].x1, y1 |-> coords[k].y1,
         x2 |-> coords[k].x2, y2 |-> coords[k].y2, class_name |-> "class"]]

\* Lines 199-200
Classes == <<[class_name |-> "class", class_id |-> 0]>>

\* ------------------------------------------------------ produce helpers
\* if score < 0.5: break
RejectedMutant(score) == score <= ScoreThreshold
Rejected(score) == score < ScoreThreshold

\* for box, score in zip(boxes[0], scores[0]): the detections taken before
\* the loop breaks
RECURSIVE AcceptedRunMutant(_, _)
AcceptedRunMutant(dets, k) ==
    IF k > Len(dets) THEN <<>>
    ELSE (IF Rejected(dets[k].score) THEN <<>> ELSE <<dets[k]>>)
         \o AcceptedRunMutant(dets, k + 1)

RECURSIVE AcceptedRun(_, _)
AcceptedRun(dets, k) ==
    IF k > Len(dets) \/ Rejected(dets[k].score) THEN <<>>
    ELSE <<dets[k]>> \o AcceptedRun(dets, k + 1)

\* Lines 618-621: input_df
InputDf(inp, paths) ==
    [k \in 1..Len(inp) |-> [d3mIndex |-> inp[k].d3mIndex, image |-> Basename(paths[k])]]

\* Line 625: input_df.set_index('image').T.to_dict('list'): a dict built
\* column by column, so a repeated image keeps its first position and the
\* value of its last column; every value is the list of the one d3mIndex row.
\* The dict is the sequence of its items in insertion order.
D3mIdxImageMapping(df) ==
    LET images == [k \in 1..Len(df) |-> df[k].image]
        keys == KeepFirstFrom(images, 1)
        last(key) == CHOOSE i \in 1..Len(df) :
                        df[i].image = key /\ \A j \in (i + 1)..Len(df) : df[j].image # key
    IN  [n \in 1..Len(keys) |-> [key |-> keys[n], value |-> <<df[last(keys[n])].d3mIndex>>]]

\* dict.get(key)
DictGet(mapping, key) ==
    IF \E n \in 1..Len(mapping) : mapping[n].key = key
    THEN mapping[CHOOSE n \in 1..Len(mapping) : mapping[n].key = key].value
    ELSE NoneValue

\* [item for sublist in l for item in sublist]
RECURSIVE Flatten(_)
Flatten(l) == IF Len(l) = 0 THEN <<>> ELSE Head(l) \o Flatten(Tail(l))

\* x in list
InList(x, l) == \E n \in 1..Len(l) : l[n] = x

\* Line 629: [k for k, v in mapping.items() if v not in d3mIdx]
RECURSIVE EmptyPredictionsImageNames(_, _, _)
EmptyPredictionsImageNames(mapping, d3mIdx, n) ==
    IF n > Len(mapping) THEN <<>>
    ELSE (IF InList(mapping[n].value, d3mIdx) THEN <<>> ELSE <<mapping[n].key>>)
         \o EmptyPredictionsImageNames(mapping, d3mIdx, n + 1)

\* Lines 642-646: pd.DataFrame of three lists of one length
Results(d3mIdx, boxes, scores) ==
    [k \in 1..Len(d3mIdx) |->
        [d3mIndex |-> d3mIdx[k], bounding_box |-> boxes[k], confidence |-> scores[k]]]

\* Lines 642-646: the columns of results, in the order of the dict
ResultsColumns == <<"d3mIndex", "bounding_box", "confidence">>

\* Lines 662-685: the metadata written on column positions 0, 1 and 2;
\* structural_type is type("1") for each.
ColumnMetadata ==
    << [name |-> "d3mIndex", structural_type |-> "str",
        semantic_types |-> {"http://schema.org/Integer", "PrimaryKey"}],
       [name |-> "bounding_box", structural_type |-> "str",
        semantic_types |-> {"http://schema.org/Text", "PredictedTarget", "BoundingPolygon"}],
       [name |-> "confidence", structural_type |-> "str",
        semantic_types |-> {"http://schema.org/Integer", "Score"}] >>

\* -------------------------------------------------------------- the state
VARIABLES
    \* the instance's attributes
    image_paths, annotations, base_dir, classes, backbone, training_model,
    \* the method called last, its argument table and how it ended
    op, inputs, outcome,
    \* produce's position and locals
    pc, image_list, pos, box_list, score_list, image_name_list, lastOutput,
    \* the image paths handed to the detector in this call, in order
    calls,
    d3mIdx_image_mapping, empty_predictions_image_names, results_df,
    \* the returned table's columns and the metadata of each column position
    results_columns, results_metadata,
    \* history: some fit call on this instance has run to its end
    fit_completed

instanceVars == <<image_paths, annotations, base_dir, classes, backbone, training_model>>
callVars == <<op, inputs, outcome>>
loopVars == <<image_list, pos, box_list, score_list, image_name_list, lastOutput, calls>>
assembleVars ==
    <<d3mIdx_image_mapping, empty_predictions_image_names, results_df,
      results_columns, results_metadata>>
vars == <<instanceVars, callVars, pc, loopVars, assembleVars, fit_completed>>

NoOutput == [arity |-> 0, dets |-> <<>>]

\* The locals of produce at its entry; they do not outlive the next call.
FreshLocals ==
    /\ pos' = 1
    /\ box_list' = <<>>
    /\ score_list' = <<>>
    /\ image_name_list' = <<>>
    /\ lastOutput' = NoOutput
    /\ calls' = <<>>
    /\ d3mIdx_image_mapping' = <<>>
    /\ empty_predictions_image_names' = <<>>
    /\ results_df' = <<>>
    /\ results_columns' = <<>>
    /\ results_metadata' = <<>>

\* __init__ (lines 146-156); training_model is no attribute until fit sets it
Init ==
    /\ image_paths = NoTable
    /\ annotations = NoTable
    /\ base_dir = NoTable
    /\ classes = NoTable
    /\ backbone = NoneValue
    /\ training_model = "unset"
    /\ op = "__init__"
    /\ inputs = <<>>
    /\ outcome = "ok"
    /\ pc = "idle"
    /\ image_list = <<>>
    /\ pos = 1
    /\ box_list = <<>>
    /\ score_list = <<>>
    /\ image_name_list = <<>>
    /\ lastOutput = NoOutput
    /\ calls = <<>>
    /\ d3mIdx_image_mapping = <<>>
    /\ empty_predictions_image_names = <<>>
    /\ results_df = <<>>
    /\ results_columns = <<>>
    /\ results_metadata = <<>>
    /\ fit_completed = FALSE

\* set_training_data (lines 164-200). Lines 181-183 store the paths before
\* lines 186-189 can raise; annotations and classes are stored only when
\* they do not.
SetTrainingData(inp) ==
    /\ pc = "idle"
    /\ op' = "set_training_data"
    /\ inputs' = inp
    /\ base_dir' = LocationBase
    /\ image_paths' = ImagePaths(inp)
    /\ outcome' = BoundingCoordsError(inp)
    /\ IF BoundingCoordsError(inp) = "ok"
       THEN /\ annotations' = Annotations(ImagePaths(inp), BoundingCoords(inp))
            /\ classes' = Classes
       ELSE UNCHANGED <<annotations, classes>>
    /\ FreshLocals
    /\ image_list' = <<>>
    /\ UNCHANGED <<backbone, training_model, pc, fit_completed>>

\* fit (lines 370-432). The generator, the model and the training are the
\* detection library's: fit stops at the generator (line 384) when there are
\* no annotations, and the training (line 423) may raise after line 396 has
\* stored the training model.
FitResults == {"ok", "training_error"}

\* CSVGenerator(annotations, classes, ...) (lines 300 and 384) has nothing to
\* read when no annotations were stored.
GeneratorFails(ann) == ann = NoTable

Fit(result) ==
    /\ pc = "idle"
    /\ op' = "fit"
    /\ inputs' = <<>>
    /\ backbone' = "backbone"
    /\ IF GeneratorFails(annotations)
       THEN /\ outcome' = "generator_error"
            /\ UNCHANGED <<training_model, fit_completed>>
       ELSE /\ outcome' = result
            /\ training_model' = "training_model"
            /\ fit_completed' = (fit_completed \/ result = "ok")
    /\ FreshLocals
    /\ image_list' = <<>>
    /\ UNCHANGED <<image_paths, annotations, base_dir, classes, pc>>

\* Lines 502-505: how produce ends before it reads its input, if it does.
\* Line 300 reads self.backbone.preprocess_image, then builds the generator;
\* line 505 reads self.training_model.
ProduceStartError ==
    IF backbone = NoneValue THEN "AttributeError"
    ELSE IF GeneratorFails(annotations) THEN "generator_error"
    ELSE IF training_model = "unset" THEN "AttributeError"
    ELSE "ok"

ProduceReadyMutant == TRUE
ProduceReady == ProduceStartError = "ok"

\* Lines 571-573: produce stores the base directory and the image paths of
\* its input on the instance; it assigns no other attribute.
ProduceStoresMutant(inp) ==
    /\ base_dir' = LocationBase
    /\ image_paths' = ImagePaths(inp)
    /\ annotations' =
           [k \in 1..Len(annotations) |->
               [annotations[k] EXCEPT !.img_file = ImagePaths(inp)[1]]]
    /\ UNCHANGED classes

ProduceStores(inp) ==
    /\ base_dir' = LocationBase
    /\ image_paths' = ImagePaths(inp)
    /\ UNCHANGED <<annotations, classes>>

\* produce, lines 497-585: up to the loop over the images
ProduceStart(inp) ==
    /\ pc = "idle"
    /\ op' = "produce"
    /\ inputs' = inp
    /\ FreshLocals
    /\ UNCHANGED <<backbone, training_model, fit_completed>>
    /\ IF ~ProduceReady
       THEN /\ outcome' = ProduceStartError
            /\ image_list' = <<>>
            /\ UNCHANGED <<pc, image_paths, base_dir, annotations, classes>>
       ELSE /\ outcome' = "running"
            /\ pc' = "loop"
            /\ ProduceStores(inp)
            /\ image_list' = ImageList(ImagePaths(inp))

\* Line 594: boxes, scores, labels = ... unpacks a tuple of exactly three
UnpacksMutant(out) == TRUE
Unpacks(out) == out.arity = 3

\* produce, lines 587-606: one image of the loop
ProducePredict(out) ==
    /\ pc = "loop"
    /\ pos <= Len(image_list)
    /\ lastOutput' = out
    /\ calls' = Append(calls, image_list[pos])
    /\ UNCHANGED <<instanceVars, op, inputs, image_list, assembleVars, fit_completed>>
    /\ IF ~Unpacks(out)
       THEN \* line 594: the tuple does not unpack into three names
            /\ pc' = "idle"
            /\ outcome' = "ValueError"
            /\ UNCHANGED <<pos, box_list, score_list, image_name_list>>
       ELSE LET run == AcceptedRun(out.dets, 1)
                i == image_list[pos]
            IN  /\ box_list' = box_list \o [k \in 1..Len(run) |-> BoxAsInt(run[k].box)]
                /\ score_list' = score_list \o [k \in 1..Len(run) |-> run[k].score]
                /\ image_name_list' =
                       image_name_list \o [k \in 1..Len(run) |-> StrRepeat(i, BoxLen)]
                /\ pos' = pos + 1
                /\ UNCHANGED <<pc, outcome>>

\* produce, lines 608-687: after the loop
ProduceAssemble ==
    /\ pc = "loop"
    /\ pos > Len(image_list)
    /\ LET boxes == [k \in 1..Len(box_list) |-> BoxString(box_list[k])]
           names == [k \in 1..Len(image_name_list) |-> Basename(image_name_list[k])]
           mapping == D3mIdxImageMapping(InputDf(inputs, image_paths))
           d3mIdx == [k \in 1..Len(names) |-> DictGet(mapping, names[k])]
           empty == EmptyPredictionsImageNames(mapping, d3mIdx, 1)
           results == Results(Flatten(d3mIdx), boxes, score_list)
       IN  /\ d3mIdx_image_mapping' = mapping
           /\ empty_predictions_image_names' = empty
           /\ IF Len(empty) # 0
              THEN \* line 654: _fill_empty_predictions is no name in scope
                   /\ outcome' = "NameError"
                   /\ results_df' = <<>>
                   /\ results_columns' = <<>>
                   /\ results_metadata' = <<>>
              ELSE \* line 658: the container is built from results
                   /\ outcome' = "returned"
                   /\ results_df' = results
                   /\ results_columns' = ResultsColumns
                   /\ results_metadata' = ColumnMetadata
    /\ pc' = "idle"
    /\ UNCHANGED <<instanceVars, op, inputs, loopVars, fit_completed>>

Next ==
    \/ \E inp \in LifecycleTrainingInputs : SetTrainingData(inp)
    \/ \E result \in FitResults : Fit(result)
    \/ \E inp \in PredictionInputs : ProduceStart(inp)
    \/ \E out \in DetectorOutputs : ProducePredict(out)
    \/ ProduceAssemble

Spec == Init /\ [][Next]_vars

\* set_training_data alone, over the wider set of training tables
NextTraining == \E inp \in TrainingInputs : SetTrainingData(inp)

SpecTraining == Init /\ [][NextTraining]_vars

\* ================================================================ claims
\* produce ran to the end of its body: it returned, or raised after the loop.
ProduceFinished == op = "produce" /\ pc = "idle" /\ outcome \in {"returned", "NameError"}

Returned == op = "produce" /\ outcome = "returned"

InputIds == {inputs[k].d3mIndex : k \in 1..Len(inputs)}

ReturnedIds == {results_df[k].d3mIndex : k \in 1..Len(results_df)}

PlaceholderBox == <<"0", "0", "0", "0", "0", "0", "0", "0">>

\* The confidences emitted for image path i, in the order of the lists.
RECURSIVE EmittedScoresFrom(_, _)
EmittedScoresFrom(i, k) ==
    IF k > Len(score_list) THEN <<>>
    ELSE (IF image_name_list[k] = StrRepeat(i, BoxLen) THEN <<score_list[k]>> ELSE <<>>)
         \o EmittedScoresFrom(i, k + 1)

\* Input row k's image has no qualifying detection.
NoQualifyingDetection(k) == EmittedScoresFrom(image_paths[k], 1) = <<>>

\* C1: whenever produce runs to its end, it returns a table whose number of
\* rows is the number of distinct d3mIndex values of the input, whatever the
\* detector returned.
C1_RowCountIsDistinctIds ==
    ProduceFinished => (outcome = "returned" /\ Len(results_df) = Cardinality(InputIds))

\* C2: whenever produce runs to its end, every d3mIndex of the input is the
\* d3mIndex of at least one row of the returned table (the coverage gap is
\* filled in the table that is returned).
C2_EveryIdInReturnedTable ==
    ProduceFinished => (outcome = "returned" /\ InputIds \subseteq ReturnedIds)

\* C3: for every input row whose image has no detection with confidence
\* >= 0.5, produce completes and the returned table has a row for that
\* d3mIndex with bounding_box "0,0,0,0,0,0,0,0" and confidence 0.0.
C3_PlaceholderRowReturned ==
    ProduceFinished =>
        \A k \in 1..Len(inputs) :
            NoQualifyingDetection(k) =>
                /\ outcome = "returned"
                /\ \E r \in 1..Len(results_df) :
                       /\ results_df[r].d3mIndex = inputs[k].d3mIndex
                       /\ results_df[r].bounding_box = PlaceholderBox
                       /\ results_df[r].confidence = 0

\* C4: when two rows with distinct d3mIndex values have image files of one
\* basename, the mapping built in produce holds both identifiers under that
\* basename, and both are in the returned table.
C4_DuplicateBasenamesKept ==
    ProduceFinished =>
        \A j, k \in 1..Len(inputs) :
            (inputs[j].d3mIndex # inputs[k].d3mIndex
             /\ Basename(image_paths[j]) = Basename(image_paths[k])) =>
                /\ InList(inputs[j].d3mIndex,
                          DictGet(d3mIdx_image_mapping, Basename(image_paths[j])))
                /\ InList(inputs[k].d3mIndex,
                          DictGet(d3mIdx_image_mapping, Basename(image_paths[k])))
                /\ outcome = "returned"
                /\ {inputs[j].d3mIndex, inputs[k].d3mIndex} \subseteq ReturnedIds

\* C5: the table produce returns is ordered by non-decreasing d3mIndex.
C5_ReturnedTableSorted ==
    Returned =>
        \A k \in 1..(Len(results_df) - 1) :
            results_df[k].d3mIndex <= results_df[k + 1].d3mIndex

\* The image the loop processed last, and what it emitted for it.
LastImage == image_list[pos - 1]

PredictedLast == op = "produce" /\ pos > 1 /\ lastOutput.arity = 3

\* C6: the acceptance threshold is inclusive at 0.5: no emitted confidence is
\* below 0.5; an image whose first detection has confidence exactly 0.5 has
\* that detection emitted; an image whose first detection is below 0.5 has
\* nothing emitted; and the returned confidences are the emitted ones.
C6_ThresholdInclusive ==
    /\ (op = "produce") => \A k \in 1..Len(score_list) : score_list[k] >= ScoreThreshold
    /\ (PredictedLast /\ Len(lastOutput.dets) > 0) =>
           LET first == lastOutput.dets[1].score
               emitted == EmittedScoresFrom(LastImage, 1)
           IN  /\ first = ScoreThreshold => (emitted # <<>> /\ emitted[1] = ScoreThreshold)
               /\ first < ScoreThreshold => emitted = <<>>
    /\ Returned =>
           /\ Len(results_df) = Len(score_list)
           /\ \A k \in 1..Len(score_list) : results_df[k].confidence = score_list[k]

\* C6 witness: a detection at exactly 0.5 followed by one at 0.4999; the
\* first is emitted alone and is in the returned table.
C6_Witness ==
    /\ Returned
    /\ PredictedLast
    /\ Len(lastOutput.dets) = 2
    /\ lastOutput.dets[1].score = 5000
    /\ lastOutput.dets[2].score = 4999
    /\ EmittedScoresFrom(LastImage, 1) = <<5000>>
    /\ \E k \in 1..Len(results_df) : results_df[k].confidence = 5000

\* C7: every returned bounding_box is the 8 values x1,y1,x1,y2,x2,y2,x2,y1
\* of its predicted box (x1,y1,x2,y2).
C7_CornerOrder ==
    Returned =>
        /\ Len(results_df) = Len(box_list)
        /\ \A k \in 1..Len(box_list) :
               LET x1 == ToString(box_list[k][1])
                   y1 == ToString(box_list[k][2])
                   x2 == ToString(box_list[k][3])
                   y2 == ToString(box_list[k][4])
               IN  results_df[k].bounding_box = <<x1, y1, x1, y2, x2, y2, x2, y1>>

\* C7 witness: the box (1,2,10,9) is returned as "1,2,1,9,10,9,10,2".
C7_Witness ==
    /\ Returned
    /\ \E k \in 1..Len(results_df) :
           /\ box_list[k] = <<1, 2, 10, 9>>
           /\ results_df[k].bounding_box = <<"1", "2", "1", "9", "10", "9", "10", "2">>

TrainingStored == op = "set_training_data" /\ outcome = "ok"

\* The boxes produce can emit.
PredictedBoxes == {BoxAsInt(d.box) : d \in Detections}

\* C8: a training row whose bounding_box is the string produce emits for a
\* box b is decoded to b's four values, and the 8-coordinate conversion of
\* the decoded values is the row's string again (str of a string is the
\* string).
C8_RoundTrip ==
    TrainingStored =>
        \A k \in 1..Len(inputs) : \A b \in PredictedBoxes :
            inputs[k].bounding_box = BoxString(b) =>
                LET a == annotations[k]
                IN  /\ <<a.x1, a.y1, a.x2, a.y2>> = JoinStr(b)
                    /\ To8Coordinate(<<a.x1, a.y1, a.x2, a.y2>>) = inputs[k].bounding_box

\* C8 witness: the string of the box (1,2,10,9) was stored as an annotation.
C8_Witness ==
    /\ TrainingStored
    /\ \E k \in 1..Len(inputs) :
           /\ inputs[k].bounding_box = <<"1", "2", "1", "9", "10", "9", "10", "2">>
           /\ annotations[k].x1 = "1" /\ annotations[k].y1 = "2"
           /\ annotations[k].x2 = "10" /\ annotations[k].y2 = "9"

\* C9 as stated: of an 8-token string, x1 and y1 are tokens 0 and 1, x2 and
\* y2 are tokens 4 and 5 (positions counted from 0).
C9_Original ==
    TrainingStored =>
        \A k \in 1..Len(inputs) :
            Len(inputs[k].bounding_box) = 8 =>
                /\ annotations[k].x1 = inputs[k].bounding_box[1]
                /\ annotations[k].y1 = inputs[k].bounding_box[2]
                /\ annotations[k].x2 = inputs[k].bounding_box[5]
                /\ annotations[k].y2 = inputs[k].bounding_box[6]

\* C9 amended: whenever set_training_data stores annotations, of every
\* 8-token string x1 and y1 are tokens 0 and 1, y2 is token 3 and x2 is
\* token 4; tokens 2, 5, 6 and 7 are the ones discarded.
C9_Amended ==
    TrainingStored =>
        \A k \in 1..Len(inputs) :
            Len(inputs[k].bounding_box) = 8 =>
                /\ annotations[k].x1 = inputs[k].bounding_box[1]
                /\ annotations[k].y1 = inputs[k].bounding_box[2]
                /\ annotations[k].y2 = inputs[k].bounding_box[4]
                /\ annotations[k].x2 = inputs[k].bounding_box[5]

\* C9 witness: "1,2,3,4,5,6,7,8" was stored as x1 = 1, y1 = 2, x2 = 5, y2 = 4.
C9_Witness ==
    /\ TrainingStored
    /\ \E k \in 1..Len(inputs) :
           /\ inputs[k].bounding_box = GeneralString
           /\ annotations[k].x1 = "1" /\ annotations[k].y1 = "2"
           /\ annotations[k].x2 = "5" /\ annotations[k].y2 = "4"

\* A bounding-box field that is not exactly 8 numeric tokens.
Malformed(field) ==
    Len(field) # 8 \/ \E c \in 1..Len(field) : field[c] \notin NumericTokens

\* C10: set_training_data fails (here: with an error of whatever class)
\* whenever a row's bounding-box field is not exactly 8 numeric tokens, and
\* so stores no annotation built from such a row.
C10_MalformedRowFails ==
    (op = "set_training_data" /\ \E k \in 1..Len(inputs) : Malformed(inputs[k].bounding_box))
        => outcome # "ok"

\* The detector's last output was no triple.
WrongArity == op = "produce" /\ lastOutput.arity \notin {0, 3}

C12_ColumnsAndTags ==
    Returned =>
        /\ results_columns = <<"d3mIndex", "bounding_box", "confidence">>
        /\ Len(results_metadata) = 3
        /\ \A c \in 1..3 : results_metadata[c].name = results_columns[c]
        /\ results_metadata[1].semantic_types = {"http://schema.org/Integer", "PrimaryKey"}
        /\ results_metadata[2].semantic_types =
               {"http://schema.org/Text", "PredictedTarget", "BoundingPolygon"}
        /\ results_metadata[3].semantic_types = {"http://schema.org/Float", "Score"}

\* The boxes emitted for image path i, in the order of the lists.
RECURSIVE EmittedBoxesFrom(_, _)
EmittedBoxesFrom(i, k) ==
    IF k > Len(box_list) THEN <<>>
    ELSE (IF image_name_list[k] = StrRepeat(i, BoxLen) THEN <<box_list[k]>> ELSE <<>>)
         \o EmittedBoxesFrom(i, k + 1)

SortedDescending(dets) ==
    \A k \in 1..(Len(dets) - 1) : dets[k].score >= dets[k + 1].score

Qualifies(d) == d.score >= ScoreThreshold

\* C13: what is emitted for an image is the longest leading run of its
\* detections with confidence >= 0.5, in detector order, scores and boxes
\* alike; nothing after the first detection below 0.5 is emitted; and when
\* the detections come sorted by descending confidence that run is all the
\* detections with confidence >= 0.5.
C13_LeadingRun ==
    PredictedLast =>
        LET dets == lastOutput.dets
            scores == EmittedScoresFrom(LastImage, 1)
            boxes == EmittedBoxesFrom(LastImage, 1)
        IN  /\ \E n \in 0..Len(dets) :
                   /\ \A k \in 1..n : dets[k].score >= ScoreThreshold
                   /\ n < Len(dets) => dets[n + 1].score < ScoreThreshold
                   /\ scores = [k \in 1..n |-> dets[k].score]
                   /\ boxes = [k \in 1..n |-> BoxAsInt(dets[k].box)]
            /\ SortedDescending(dets) =>
                   LET all == SelectSeq(dets, Qualifies)
                   IN  scores = [k \in 1..Len(all) |-> all[k].score]

\* C13 witness: a detection at 0.9 behind one at 0.4999 is not emitted.
C13_Witness ==
    /\ PredictedLast
    /\ Len(lastOutput.dets) = 2
    /\ lastOutput.dets[1].score = 4999
    /\ lastOutput.dets[2].score = 9000
    /\ EmittedScoresFrom(LastImage, 1) = <<>>

\* The number of positions of sequence l that satisfy Test.
CountIf(l, Test(_)) == Cardinality({k \in 1..Len(l) : Test(l[k])})

\* C14: in the returned table every emitted detection has its row (several
\* for one identifier when its image has several), the three columns have
\* one length, row k carries the k-th box and score, and the k-th
\* identifier is the d3mIndex of an input row whose image is the image the
\* k-th box was predicted on.
C14_AllKeptAligned ==
    Returned =>
        /\ Len(results_df) = Len(box_list)
        /\ Len(results_df) = Len(score_list)
        /\ \A k \in 1..Len(results_df) :
               /\ results_df[k].bounding_box = BoxString(box_list[k])
               /\ results_df[k].confidence = score_list[k]
               /\ \E j \in 1..Len(inputs) :
                      /\ inputs[j].d3mIndex = results_df[k].d3mIndex
                      /\ StrRepeat(image_paths[j], BoxLen) = image_name_list[k]
        /\ \A j \in 1..Len(inputs) :
               LET HasId(r) == r.d3mIndex = inputs[j].d3mIndex
                   OfImage(name) == name = StrRepeat(image_paths[j], BoxLen)
               IN  CountIf(results_df, HasId) >= CountIf(image_name_list, OfImage)

\* Position of the first input row with image path p.
FirstRowOf(p) ==
    CHOOSE k \in 1..Len(image_paths) :
        image_paths[k] = p /\ \A j \in 1..(k - 1) : image_paths[j] # p

\* Position in calls of the call whose repeated path is name.
CallOf(name) == CHOOSE i \in 1..Len(calls) : StrRepeat(calls[i], BoxLen) = name

\* C15: within one produce call the detector is handed image paths of the
\* input only, no path twice, in the order of the paths' first rows and
\* skipping none; the rows collected are grouped by call, in call order (an
\* image's detections are collected before the next image is predicted);
\* and when produce runs to its end every path of the input was predicted.
C15_OncePerDistinctPath ==
    (op = "produce") =>
        /\ \A i, j \in 1..Len(calls) : i < j => calls[i] # calls[j]
        /\ \A i \in 1..Len(calls) : \E k \in 1..Len(image_paths) : image_paths[k] = calls[i]
        /\ \A i, j \in 1..Len(calls) :
               i < j => FirstRowOf(calls[i]) < FirstRowOf(calls[j])
        /\ \A i \in 1..Len(calls) : \A k \in 1..(FirstRowOf(calls[i]) - 1) :
               \E h \in 1..(i - 1) : calls[h] = image_paths[k]
        /\ \A a \in 1..Len(image_name_list) :
               \E i \in 1..Len(calls) : StrRepeat(calls[i], BoxLen) = image_name_list[a]
        /\ \A a, b \in 1..Len(image_name_list) :
               a < b => CallOf(image_name_list[a]) <= CallOf(image_name_list[b])
        /\ ProduceFinished =>
               \A k \in 1..Len(image_paths) : \E i \in 1..Len(calls) : calls[i] = image_paths[k]

\* C15 witness: two rows of one image path, predicted once.
C15_Witness ==
    /\ ProduceFinished
    /\ Len(inputs) = 2
    /\ image_paths[1] = image_paths[2]
    /\ calls = <<image_paths[1]>>
    /\ Len(box_list) >= 1

\* produce ended before it read its input
ProduceFailedAtStart ==
    /\ op = "produce"
    /\ pc = "idle"
    /\ outcome \in {"AttributeError", "generator_error"}
    /\ results_df = <<>>
    /\ results_columns = <<>>

C17_ProduceKeepsTraining ==
    /\ [][(annotations' # annotations \/ classes' # classes) =>
              op' = "set_training_data"]_vars
    /\ [] ((op = "produce" /\ ~ProduceFailedAtStart) =>
              /\ base_dir = LocationBase
              /\ Len(image_paths) = Len(inputs)
              /\ \A k \in 1..Len(inputs) :
                     image_paths[k] = LocationBase \o inputs[k].image)

\* C17 witness: produce returned for another image than the one annotated;
\* the annotation still names the training image.
C17_Witness ==
    /\ Returned
    /\ Len(results_df) >= 1
    /\ classes = Classes
    /\ Len(annotations) = 1
    /\ annotations[1].img_file = LocationBase \o <<"a.jpg">>
    /\ \A k \in 1..Len(image_paths) : image_paths[k] = LocationBase \o <<"b.jpg">>

====
